---- MODULE Spec2Model ----
(***************************************************************************)
(* A model of api-server/tts_service.py: the TTSService singleton, its     *)
(* background initialization thread (init_worker) and the request-facing   *)
(* generate_speech / _do_generation / _generate_mock_audio / get_status    *)
(* operations.                                                             *)
(*                                                                         *)
(* Threads.  Each _start_background_init starts one daemon thread running  *)
(* init_worker; every generate_speech and get_status call runs on a        *)
(* caller thread.  Each statement that reads or writes a field of the      *)
(* service is one step, so every interleaving of the worker with the       *)
(* callers, and of the callers with each other, is a behaviour.            *)
(*                                                                         *)
(* External capabilities (torch, kokoro's KModel / KPipeline, soundfile,   *)
(* tempfile) are opaque: each call either returns or raises, chosen        *)
(* nondeterministically.                                                   *)
(*                                                                         *)
(* Text.  A text is " "^lead . x^core . " "^trail, where x^core is a run   *)
(* of core characters that begins and ends with a non-space character.     *)
(* str.strip(), slicing text[:n] and len(text) are computed exactly on     *)
(* this form, with the lengths the program uses (5000, 50, 100).  A text   *)
(* of whitespace only is written with core = 0 and trail = 0.              *)
(*                                                                         *)
(* Voice ids.  A voice id "af_heart" is the tuple <<"a","f","heart">>, so  *)
(* Python's voice[0] is the first component; "" is <<>>.                   *)
(*                                                                         *)
(* Numbers.  speed is in hundredths (1.0 is 100), durations are in         *)
(* milliseconds (0.05 s per character is 50 ms).                           *)
(***************************************************************************)
EXTENDS Integers, Sequences, FiniteSets, TLC

\* ------------------------------------------------------------------ bounds

\* The number of generate_speech calls made in one behaviour.
MaxCalls == 2

\* The number of caller threads that may be inside generate_speech at once.
NumCallers == 2

\* The most chunks the segmentation generator yields for one text.
MaxChunks == 2

\* The number of init_worker threads: the one the constructor starts and
\* those of further _start_background_init invocations.
MaxWorkers == 2

\* The most tokens (phonemes) in the first chunk of a segmentation.
MaxTokens == 2

\* ------------------------------------------------------- program constants

\* range(10): the polls of the readiness wait.
ReadinessPolls == 10

\* text.strip()[:5000]
MaxTextLen == 5000

\* text[:50] in the mock and no-audio traces.
MockPreviewLen == 50

\* text[:100] in the trace of a real generation.
TracePreviewLen == 100

\* _generate_mock_audio: sample_rate, 0.05 s per character, at most 10 s,
\* a 440 Hz tone.
MockSampleRate == 24000

MockMsPerChar == 50

MockMaxMs == 10000

MockFrequency == 440

\* models.py line 7: the speeds TTSRequest accepts, ge=0.5 and le=2.0, in
\* hundredths.
MinSpeed == 50
MaxSpeed == 200

\* ------------------------------------------------------------- voice ids

\* The values of self.CHOICES.
CHOICES ==
    { <<"a","f","heart">>, <<"a","f","bella">>, <<"a","f","nicole">>,
      <<"a","f","aoede">>, <<"a","f","kore">>, <<"a","f","sarah">>,
      <<"a","f","nova">>, <<"a","f","sky">>, <<"a","f","alloy">>,
      <<"a","f","jessica">>, <<"a","f","river">>,
      <<"a","m","michael">>, <<"a","m","fenrir">>, <<"a","m","puck">>,
      <<"a","m","echo">>, <<"a","m","eric">>, <<"a","m","liam">>,
      <<"a","m","onyx">>, <<"a","m","santa">>, <<"a","m","adam">>,
      <<"b","f","emma">>, <<"b","f","isabella">>, <<"b","f","alice">>,
      <<"b","f","lily">>,
      <<"b","m","george">>, <<"b","m","fable">>, <<"b","m","lewis">>,
      <<"b","m","daniel">> }

\* The default of line 169.
DefaultVoice == <<"a","f","heart">>

\* ------------------------------------------------------------------- text

Min(a, b) == IF a <= b THEN a ELSE b

Text(l, c, t) == [lead |-> l, core |-> c, trail |-> t]

\* len(text)
TextLen(t) == t.lead + t.core + t.trail

\* text.strip()
Strip(t) == Text(0, t.core, 0)

\* text[:n]
Prefix(t, n) ==
    LET l == Min(t.lead, n)
        c == Min(t.core, n - l)
        r == Min(t.trail, n - l - c)
    IN  Text(l, c, r)

\* --------------------------------------------------- _generate_mock_audio

\* Line 220 without its cap: duration = len(text) * 0.05
MockDurationUncapped(text) == TextLen(text) * MockMsPerChar

\* duration = min(len(text) * 0.05, 10), in milliseconds.
MockDurationMs(text) == Min(TextLen(text) * MockMsPerChar, MockMaxMs)

\* int(sample_rate * duration): the number of samples of the tone.
MockSamples(text) == (MockSampleRate * MockDurationMs(text)) \div 1000

\* The except branch of lines 228-231 returning the name of the temporary
\* file whose write failed.
MockPathAlwaysTmp(writeOk) == "tmp_mock"

\* The path _generate_mock_audio returns: the temporary file it wrote, or
\* the fixed "/tmp/mock_audio.wav" of its except branch, which it did not
\* write.
MockPath(writeOk) == IF writeOk THEN "tmp_mock" ELSE "dummy"

\* One call of _generate_mock_audio(text): what it computed, whether sf.write
\* wrote the file, and the path returned.
generate_mock_audio(text, writeOk) ==
    [ text        |-> text,
      duration_ms |-> MockDurationMs(text),
      samples     |-> MockSamples(text),
      frequency   |-> MockFrequency,
      sample_rate |-> MockSampleRate,
      written     |-> writeOk,
      path        |-> MockPath(writeOk) ]

\* ------------------------------------------------------------------ state

VARIABLES
    wpc,                          \* where each init_worker thread is ("none":
                                  \* not started)
    initialized,                  \* self.initialized
    initialization_in_progress,   \* self.initialization_in_progress
    initialization_error,         \* self.initialization_error ("None" or str(e))
    cuda_available,               \* self.cuda_available: "unset" (no such attribute
                                  \* before line 68 or 72), "True" or "False"
    models,                       \* self.models: device key -> model
    pipelines,                    \* self.pipelines: bucket -> pipeline
    voices_loaded,                \* self.voices_loaded
    req,                          \* the generate_speech call of each caller
    ncalls,                       \* the calls made so far
    st                            \* the get_status call in progress

vars == << wpc, initialized, initialization_in_progress, initialization_error,
           cuda_available, models, pipelines, voices_loaded, req, ncalls, st >>

service == << initialized, initialization_in_progress, initialization_error,
              cuda_available, models, pipelines >>

Callers == 1..NumCallers

Workers == 1..MaxWorkers

\* The empty dict.
EmptyDict == [k \in {} |-> "none"]

NoText == Text(0, 0, 0)

\* A caller that is not inside generate_speech.  pc is the line the call is
\* at, "done" once it has returned its (path, trace) pair (result), and
\* "raised" if an exception left generate_speech instead.  loads, segs,
\* infers and mocks log the calls of pipeline.load_voice, pipeline(...),
\* self.models[...](...) and _generate_mock_audio made by this call; raised
\* is what raised inside _do_generation; chunks is the number of chunks the
\* segmentation has for the text and tokens is len(ps) of its first chunk.  ready_at_call and loaded_at_call
\* record self.initialized, and whether the voice the call resolves to was in
\* self.voices_loaded, when the call was made.
Idle ==
    [ pc |-> "idle",
      arg |-> [text |-> NoText, voice |-> <<>>, speed |-> 0, use_gpu |-> FALSE],
      text |-> NoText, voice |-> <<>>,
      polls |-> 0, ready_at_call |-> FALSE, loaded_at_call |-> FALSE,
      pipeline |-> "none", chunks |-> 0, tokens |-> 0,
      loads |-> <<>>, segs |-> <<>>, infers |-> <<>>, mocks |-> <<>>,
      raised |-> "none",
      result |-> [path |-> "none", trace |-> "none", preview |-> NoText] ]

\* No get_status call in progress.  pc is the line the call is at, "done"
\* once it has returned; result and reason are the status and the error text
\* of the dict it returned; state_at_call is the state of the service when
\* the call was made.
NoStatus ==
    [ pc |-> "idle", state_at_call |-> "none", result |-> "none", reason |-> "None" ]

\* The state of the service as the chain of tests in get_status orders it,
\* taken from the three fields at one instant.
EngineState ==
    IF initialized THEN "Ready"
    ELSE IF initialization_in_progress THEN "Initializing"
    ELSE IF initialization_error # "None" THEN "Failed"
    ELSE "Uninitialized"

\* TTSService.__init__ up to thread.start(): the worker thread exists and has
\* not run a statement yet.
Init ==
    /\ wpc = [w \in Workers |-> IF w = 1 THEN "L62" ELSE "none"]
    /\ initialized = FALSE
    /\ initialization_in_progress = FALSE
    /\ initialization_error = "None"
    /\ cuda_available = "unset"
    /\ models = EmptyDict
    /\ pipelines = EmptyDict
    /\ voices_loaded = {}
    /\ req = [r \in Callers |-> Idle]
    /\ ncalls = 0
    /\ st = NoStatus

\* ------------------------------------------------- _start_background_init

\* lines 58-112, invoked on the constructed service: one more init_worker
\* thread is created and started, whatever the fields say.
StartBackgroundInit(w) ==
    /\ wpc[w] = "none"
    /\ wpc' = [wpc EXCEPT ![w] = "L62"]
    /\ UNCHANGED << service, voices_loaded, req, ncalls, st >>

\* ------------------------------------------------------------ init_worker

\* The ready flag published first, before anything is installed.
InitWorker_BeginReady(w) ==
    /\ wpc[w] = "L62"
    /\ initialization_in_progress' = TRUE
    /\ initialized' = TRUE
    /\ wpc' = [wpc EXCEPT ![w] = "L67"]
    /\ UNCHANGED << initialization_error, cuda_available, models, pipelines,
                    voices_loaded, req, ncalls, st >>

\* line 62
InitWorker_Begin(w) ==
    /\ wpc[w] = "L62"
    /\ initialization_in_progress' = TRUE
    /\ wpc' = [wpc EXCEPT ![w] = "L67"]
    /\ UNCHANGED << initialized, initialization_error, cuda_available, models,
                    pipelines, voices_loaded, req, ncalls, st >>

\* lines 66-72: import torch; a failure is logged and leaves cuda off.
InitWorker_ImportTorch(w) ==
    /\ wpc[w] = "L67"
    /\ \E cuda \in {"True", "False"} : cuda_available' = cuda
    /\ wpc' = [wpc EXCEPT ![w] = "L76"]
    /\ UNCHANGED << initialized, initialization_in_progress, initialization_error,
                    models, pipelines, voices_loaded, req, ncalls, st >>

\* An except branch that only logs: the reason is not recorded.
KokoroFailedUnrecorded(w, reason) ==
    /\ UNCHANGED initialization_error
    /\ wpc' = [wpc EXCEPT ![w] = "L108"]

\* The except branch of lines 100-102, then the finally of line 108 is next.
KokoroFailed(w, reason) ==
    /\ initialization_error' = reason
    /\ wpc' = [wpc EXCEPT ![w] = "L108"]

\* line 76: from kokoro import KModel, KPipeline
InitWorker_ImportKokoro(w) ==
    /\ wpc[w] = "L76"
    /\ \E ok \in BOOLEAN :
         IF ok THEN wpc' = [wpc EXCEPT ![w] = "L81"] /\ UNCHANGED initialization_error
               ELSE KokoroFailed(w, "import kokoro")
    /\ UNCHANGED << initialized, initialization_in_progress, cuda_available,
                    models, pipelines, voices_loaded, req, ncalls, st >>

\* line 81: self.models[False] = KModel().to('cpu').eval()
InitWorker_LoadModel(w) ==
    /\ wpc[w] = "L81"
    /\ \E ok \in BOOLEAN :
         IF ok THEN /\ models' = [k \in DOMAIN models \cup {FALSE} |-> "KModel_cpu"]
                    /\ wpc' = [wpc EXCEPT ![w] = "L86"]
                    /\ UNCHANGED initialization_error
               ELSE /\ KokoroFailed(w, "KModel")
                    /\ UNCHANGED models
    /\ UNCHANGED << initialized, initialization_in_progress, cuda_available,
                    pipelines, voices_loaded, req, ncalls, st >>

\* lines 86-89: both pipelines are built before self.pipelines is assigned.
InitWorker_LoadPipelines(w) ==
    /\ wpc[w] = "L86"
    /\ \E ok \in BOOLEAN :
         IF ok THEN /\ pipelines' = [b \in {"a", "b"} |-> "KPipeline"]
                    /\ wpc' = [wpc EXCEPT ![w] = "L92"]
                    /\ UNCHANGED initialization_error
               ELSE /\ KokoroFailed(w, "KPipeline")
                    /\ UNCHANGED pipelines
    /\ UNCHANGED << initialized, initialization_in_progress, cuda_available,
                    models, voices_loaded, req, ncalls, st >>

\* lines 92-93: the two lexicon entries ('kokoro' in each pipeline's golds).
InitWorker_Lexicon(w) ==
    /\ wpc[w] = "L92"
    /\ \E ok \in BOOLEAN :
         IF ok THEN /\ pipelines' = [b \in DOMAIN pipelines |-> "KPipeline+kokoro"]
                    /\ wpc' = [wpc EXCEPT ![w] = "L97"]
                    /\ UNCHANGED initialization_error
               ELSE /\ KokoroFailed(w, "lexicon")
                    /\ UNCHANGED pipelines
    /\ UNCHANGED << initialized, initialization_in_progress, cuda_available,
                    models, voices_loaded, req, ncalls, st >>

\* line 97
InitWorker_SetInitialized(w) ==
    /\ wpc[w] = "L97"
    /\ initialized' = TRUE
    /\ wpc' = [wpc EXCEPT ![w] = "L108"]
    /\ UNCHANGED << initialization_in_progress, initialization_error,
                    cuda_available, models, pipelines, voices_loaded, req, ncalls, st >>

\* The worker without its finally clause: the flag of line 62 stays set.
InitWorker_NoFinally(w) ==
    /\ wpc[w] = "L108"
    /\ wpc' = [wpc EXCEPT ![w] = "done"]
    /\ UNCHANGED << service, voices_loaded, req, ncalls, st >>

\* line 108: finally
InitWorker_Finally(w) ==
    /\ wpc[w] = "L108"
    /\ initialization_in_progress' = FALSE
    /\ wpc' = [wpc EXCEPT ![w] = "done"]
    /\ UNCHANGED << initialized, initialization_error, cuda_available, models,
                    pipelines, voices_loaded, req, ncalls, st >>

init_worker(w) ==
    \/ InitWorker_Begin(w)
    \/ InitWorker_ImportTorch(w)
    \/ InitWorker_ImportKokoro(w)
    \/ InitWorker_LoadModel(w)
    \/ InitWorker_LoadPipelines(w)
    \/ InitWorker_Lexicon(w)
    \/ InitWorker_SetInitialized(w)
    \/ InitWorker_Finally(w)

\* -------------------------------------------------------- generate_speech

\* The speed forced into the range the request schema allows.
SpeedClamped(speed) == IF speed < MinSpeed THEN MinSpeed ELSE Min(speed, MaxSpeed)

\* lines 148, 175, 192, 196: speed goes from the argument to the pipeline and
\* to the model as it came in.
SpeedPassed(speed) == speed

\* Lines 168-169 left out: the id is used as passed in.
ValidateVoiceSkipped(voice) == voice

\* lines 168-169: an id that is no value of CHOICES becomes the default.
ValidateVoice(voice) == IF voice \in CHOICES THEN voice ELSE DefaultVoice

\* Line 172 without its slice: text.strip()
LimitTextUncut(text) == Strip(text)

\* line 172: text.strip()[:5000]
LimitText(text) == Prefix(Strip(text), MaxTextLen)

\* voice[0]; "" for the empty id (Python raises IndexError there, and no
\* pipeline has that key).
Bucket(voice) == IF voice = <<>> THEN "" ELSE voice[1]

\* Line 196 keyed by the request's flag: self.models[use_gpu] (TRUE is the
\* GPU key, which init_worker never installs).
InferDeviceRequested(use_gpu) == use_gpu

\* line 196: self.models[False], whatever use_gpu says (FALSE is the CPU key).
InferDevice(use_gpu) == FALSE

Set(r, rec) == req' = [req EXCEPT ![r] = rec]

\* A call generate_speech(text, voice, speed, use_gpu) by caller r.
GenerateSpeech_Call(r, texts, voices, speeds, gpus) ==
    /\ req[r].pc = "idle"
    /\ ncalls < MaxCalls
    /\ ncalls' = ncalls + 1
    /\ \E text \in texts, voice \in voices, speed \in speeds, use_gpu \in gpus :
         Set(r, [req[r] EXCEPT
                   !.pc = "L154",
                   !.arg = [text |-> text, voice |-> voice, speed |-> speed,
                            use_gpu |-> use_gpu],
                   !.text = text,
                   !.voice = voice,
                   !.ready_at_call = initialized,
                   !.loaded_at_call = ValidateVoice(voice) \in voices_loaded])
    /\ UNCHANGED << wpc, service, voices_loaded, st >>

\* Line 154 testing the in-progress flag instead: "if not self.initialized or
\* self.initialization_in_progress", which sends a call made between lines 97
\* and 108 into the not-ready branch.
CheckInitializedOrInProgress(r) ==
    /\ req[r].pc = "L154"
    /\ req' = [req EXCEPT ![r].pc =
                 IF initialized /\ ~initialization_in_progress
                   THEN "L168" ELSE "L155"]
    /\ UNCHANGED << wpc, service, voices_loaded, ncalls, st >>

\* line 154: if not self.initialized
GenerateSpeech_CheckInitialized(r) ==
    /\ req[r].pc = "L154"
    /\ Set(r, [req[r] EXCEPT !.pc = IF initialized THEN "L168" ELSE "L155"])
    /\ UNCHANGED << wpc, service, voices_loaded, ncalls, st >>

\* line 155: if self.initialization_in_progress
GenerateSpeech_CheckInProgress(r) ==
    /\ req[r].pc = "L155"
    /\ Set(r, IF initialization_in_progress
                THEN [req[r] EXCEPT !.pc = "L159"]
                ELSE [req[r] EXCEPT !.pc = "L163"])
    /\ UNCHANGED << wpc, service, voices_loaded, ncalls, st >>

\* The loop with one iteration too many (range(11)).
PollNextOneMore(polls) == IF polls = ReadinessPolls + 1 THEN "L163" ELSE "L159"

\* for _ in range(10): after a sleep the loop goes on, or ends once the
\* range is used up.
PollNext(polls) == IF polls = ReadinessPolls THEN "L163" ELSE "L159"

\* lines 158-161: one iteration of the loop: break when initialized, else
\* time.sleep(1).
GenerateSpeech_Poll(r) ==
    /\ req[r].pc = "L159"
    /\ Set(r, IF initialized
                THEN [req[r] EXCEPT !.pc = "L163"]
                ELSE [req[r] EXCEPT
                        !.polls = @ + 1,
                        !.pc = PollNext(req[r].polls + 1)])
    /\ UNCHANGED << wpc, service, voices_loaded, ncalls, st >>

\* Line 165 without its return: the call goes on to the generation.
NotReadyFallsThrough(rec, writeOk) == [rec EXCEPT !.pc = "L168"]

\* The result of line 165: mock audio of the text as passed in, and the trace
\* "Mock audio for: {text[:50]}...".
NotReadyResult(rec, writeOk) ==
    [rec EXCEPT
       !.pc = "done",
       !.mocks = Append(@, generate_mock_audio(rec.text, writeOk)),
       !.result = [path |-> MockPath(writeOk), trace |-> "Mock audio for",
                   preview |-> Prefix(rec.text, MockPreviewLen)]]

\* lines 163-165: if not self.initialized: return mock audio
GenerateSpeech_Recheck(r) ==
    /\ req[r].pc = "L163"
    /\ IF initialized
         THEN Set(r, [req[r] EXCEPT !.pc = "L168"])
         ELSE \E writeOk \in BOOLEAN : Set(r, NotReadyResult(req[r], writeOk))
    /\ UNCHANGED << wpc, service, voices_loaded, ncalls, st >>

\* lines 168-172: the voice is validated and the text limited.  (The loop
\* counter of the wait is dead from here on.)
GenerateSpeech_Normalize(r) ==
    /\ req[r].pc = "L168"
    /\ Set(r, [req[r] EXCEPT
                 !.pc = "L182",
                 !.polls = 0,
                 !.voice = ValidateVoice(req[r].voice),
                 !.text = LimitText(req[r].text)])
    /\ UNCHANGED << wpc, service, voices_loaded, ncalls, st >>

\* _do_generation called outside the try of lines 174-178: the exception
\* leaves generate_speech.
ExceptPropagates(rec, what, writeOk) ==
    [rec EXCEPT !.pc = "raised", !.raised = what]

\* lines 176-178: an exception of _do_generation is caught; the result is
\* mock audio of the limited text and the trace "Generation failed: {e}".
ExceptResult(rec, what, writeOk) ==
    [rec EXCEPT
       !.pc = "done",
       !.raised = what,
       !.mocks = Append(@, generate_mock_audio(rec.text, writeOk)),
       !.result = [path |-> MockPath(writeOk), trace |-> "Generation failed",
                   preview |-> NoText]]

\* line 182: pipeline = self.pipelines[voice[0]]
DoGeneration_GetPipeline(r) ==
    /\ req[r].pc = "L182"
    /\ IF Bucket(req[r].voice) \in DOMAIN pipelines
         THEN Set(r, [req[r] EXCEPT !.pc = "L185",
                                    !.pipeline = Bucket(req[r].voice)])
         ELSE \E writeOk \in BOOLEAN :
                Set(r, ExceptResult(req[r], "pipelines[voice[0]]", writeOk))
    /\ UNCHANGED << wpc, service, voices_loaded, ncalls, st >>

\* line 185: if voice not in self.voices_loaded
DoGeneration_CheckLoaded(r) ==
    /\ req[r].pc = "L185"
    /\ Set(r, [req[r] EXCEPT
                 !.pc = IF req[r].voice \notin voices_loaded THEN "L187" ELSE "L190"])
    /\ UNCHANGED << wpc, service, voices_loaded, ncalls, st >>

\* line 187: pipeline.load_voice(voice)
DoGeneration_LoadVoice(r) ==
    /\ req[r].pc = "L187"
    /\ \E ok \in BOOLEAN, writeOk \in BOOLEAN :
         LET rec == [req[r] EXCEPT !.loads = Append(@, req[r].voice)]
         IN  Set(r, IF ok THEN [rec EXCEPT !.pc = "L188"]
                          ELSE ExceptResult(rec, "load_voice", writeOk))
    /\ UNCHANGED << wpc, service, voices_loaded, ncalls, st >>

\* line 188: self.voices_loaded.add(voice)
DoGeneration_AddLoaded(r) ==
    /\ req[r].pc = "L188"
    /\ voices_loaded' = voices_loaded \cup {req[r].voice}
    /\ Set(r, [req[r] EXCEPT !.pc = "L190"])
    /\ UNCHANGED << wpc, service, ncalls, st >>

\* line 190: pack = pipeline.load_voice(voice)
DoGeneration_LoadPack(r) ==
    /\ req[r].pc = "L190"
    /\ \E ok \in BOOLEAN, writeOk \in BOOLEAN :
         LET rec == [req[r] EXCEPT !.loads = Append(@, req[r].voice)]
         IN  Set(r, IF ok THEN [rec EXCEPT !.pc = "L192"]
                          ELSE ExceptResult(rec, "load_voice", writeOk))
    /\ UNCHANGED << wpc, service, voices_loaded, ncalls, st >>

\* The result of line 213: the segmentation yielded nothing.
NoAudioResult(rec, writeOk) ==
    [rec EXCEPT
       !.pc = "done",
       !.mocks = Append(@, generate_mock_audio(rec.text, writeOk)),
       !.result = [path |-> MockPath(writeOk), trace |-> "No audio generated for",
                   preview |-> Prefix(rec.text, MockPreviewLen)]]

\* line 192: for _, ps, _ in pipeline(text, voice, speed): the generator
\* raises, yields nothing (line 213), or yields a first chunk of n.
DoGeneration_Segment(r) ==
    /\ req[r].pc = "L192"
    /\ \E raises \in BOOLEAN, n \in 0..MaxChunks, k \in 1..MaxTokens,
          writeOk \in BOOLEAN :
         LET rec == [req[r] EXCEPT
                       !.segs = Append(@, [text |-> req[r].text,
                                           voice |-> req[r].voice,
                                           speed |-> SpeedPassed(req[r].arg.speed)])]
         IN  Set(r, IF raises THEN ExceptResult(rec, "pipeline", writeOk)
                    ELSE IF n = 0 THEN NoAudioResult(rec, writeOk)
                    ELSE [rec EXCEPT !.pc = "L196", !.chunks = n, !.tokens = k])
    /\ UNCHANGED << wpc, service, voices_loaded, ncalls, st >>

\* Line 193 without its offset: pack[len(ps)]
RefIndexOffByOne(tokens) == tokens

\* line 193: ref_s = pack[len(ps)-1]
RefIndex(tokens) == tokens - 1

\* lines 193-196: audio = self.models[False](ps, ref_s, speed), in the
\* loop's first pass: ps is the first chunk the generator yields.
DoGeneration_Infer(r) ==
    /\ req[r].pc = "L196"
    /\ \E ok \in BOOLEAN, writeOk \in BOOLEAN :
         LET device == InferDevice(req[r].arg.use_gpu)
             rec == [req[r] EXCEPT
                       !.infers = Append(@, [device |-> device,
                                             speed |-> SpeedPassed(req[r].arg.speed),
                                             chunk |-> 1,
                                             tokens |-> req[r].tokens,
                                             ref |-> RefIndex(req[r].tokens)])]
         IN  Set(r, IF device \notin DOMAIN models
                      THEN ExceptResult(rec, "models[device]", writeOk)
                    ELSE IF ok THEN [rec EXCEPT !.pc = "L204"]
                    ELSE ExceptResult(rec, "model", writeOk))
    /\ UNCHANGED << wpc, service, voices_loaded, ncalls, st >>

\* lines 199-210: the waveform is written to a temporary file and returned
\* with "Generated {n} tokens for text: {text[:100]}...".
DoGeneration_Write(r) ==
    /\ req[r].pc = "L204"
    /\ \E ok \in BOOLEAN, writeOk \in BOOLEAN :
         Set(r, IF ok
                  THEN [req[r] EXCEPT
                          !.pc = "done",
                          !.result = [path |-> "tmp_real", trace |-> "Generated",
                                      preview |-> Prefix(req[r].text, TracePreviewLen)]]
                  ELSE ExceptResult(req[r], "sf.write", writeOk))
    /\ UNCHANGED << wpc, service, voices_loaded, ncalls, st >>

\* The caller has the (path, trace) pair; its thread is free for a next call.
GenerateSpeech_Return(r) ==
    /\ req[r].pc = "done"
    /\ Set(r, Idle)
    /\ UNCHANGED << wpc, service, voices_loaded, ncalls, st >>

generate_speech(r) ==
    \/ GenerateSpeech_CheckInitialized(r)
    \/ GenerateSpeech_CheckInProgress(r)
    \/ GenerateSpeech_Poll(r)
    \/ GenerateSpeech_Recheck(r)
    \/ GenerateSpeech_Normalize(r)
    \/ DoGeneration_GetPipeline(r)
    \/ DoGeneration_CheckLoaded(r)
    \/ DoGeneration_LoadVoice(r)
    \/ DoGeneration_AddLoaded(r)
    \/ DoGeneration_LoadPack(r)
    \/ DoGeneration_Segment(r)
    \/ DoGeneration_Infer(r)
    \/ DoGeneration_Write(r)
    \/ GenerateSpeech_Return(r)


\* ------------------------------------------------------------- get_status

\* line 114: the call is made.
GetStatus_Call ==
    /\ st.pc = "idle"
    /\ st' = [st EXCEPT !.pc = "L116", !.state_at_call = EngineState]
    /\ UNCHANGED << wpc, service, voices_loaded, req, ncalls >>

\* lines 116-117
GetStatus_ReadInitialized ==
    /\ st.pc = "L116"
    /\ st' = IF initialized THEN [st EXCEPT !.pc = "done", !.result = "ready"]
                            ELSE [st EXCEPT !.pc = "L118"]
    /\ UNCHANGED << wpc, service, voices_loaded, req, ncalls >>

\* lines 118-119
GetStatus_ReadInProgress ==
    /\ st.pc = "L118"
    /\ st' = IF initialization_in_progress
               THEN [st EXCEPT !.pc = "done", !.result = "initializing"]
               ELSE [st EXCEPT !.pc = "L120"]
    /\ UNCHANGED << wpc, service, voices_loaded, req, ncalls >>

\* The test of line 120 is left out: a failure is never reported.
StatusAfterFlagsWaiting(error) == [result |-> "waiting", reason |-> "None"]

\* lines 120-123: "error" with the recorded reason in the message, or "waiting".
StatusAfterFlags(error) ==
    IF error # "None" THEN [result |-> "error", reason |-> error]
                      ELSE [result |-> "waiting", reason |-> "None"]

GetStatus_ReadError ==
    /\ st.pc = "L120"
    /\ st' = [st EXCEPT !.pc = "done",
                        !.result = StatusAfterFlags(initialization_error).result,
                        !.reason = StatusAfterFlags(initialization_error).reason]
    /\ UNCHANGED << wpc, service, voices_loaded, req, ncalls >>

\* The dict is handed to the endpoint (main.py lines 114, 124).
GetStatus_Return ==
    /\ st.pc = "done"
    /\ st' = NoStatus
    /\ UNCHANGED << wpc, service, voices_loaded, req, ncalls >>

get_status ==
    \/ GetStatus_Call
    \/ GetStatus_ReadInitialized
    \/ GetStatus_ReadInProgress
    \/ GetStatus_ReadError
    \/ GetStatus_Return

\* --------------------------------------------------------- specifications

\* The inputs: catalog voices of both buckets, ids outside the catalog (one
\* in bucket "a", one in no bucket, the empty id); texts around the limits
\* 50, 200 (the 10 s cap) and 5000, with and without surrounding
\* whitespace; speeds inside and outside [0.5, 2.0].
AllVoices ==
    { <<"a","f","heart">>, <<"b","f","emma">>, <<"z","z","top">>,
      <<"a","f","ghost">>, <<>> }

AllTexts ==
    { Text(0, 0, 0), Text(3, 0, 0), Text(0, 2, 0), Text(1, 1, 0),
      Text(0, 51, 0), Text(0, 201, 0),
      Text(0, 5001, 0), Text(1, 5000, 0), Text(2, 4998, 1),
      Text(0, 25000, 0) }

AllSpeeds == { 25, 100, 300 }

\* The worker and one caller thread, which makes its calls one after the
\* other (main.py's handler runs generate_speech on the event loop).
Next ==
    \/ init_worker(1)
    \/ GenerateSpeech_Call(1, AllTexts, AllVoices, AllSpeeds, BOOLEAN)
    \/ generate_speech(1)

Spec == Init /\ [][Next]_vars

\* The inputs of the concurrent specification.
CallVoices == { <<"a","f","heart">>, <<"b","f","emma">>, <<"z","z","top">> }

CallTexts == { Text(0, 2, 0) }

CallSpeeds == { 100 }

CallGpus == { TRUE }

\* The worker and NumCallers caller threads, interleaved in every way.
NextConcurrent ==
    \/ init_worker(1)
    \/ \E r \in Callers :
         \/ GenerateSpeech_Call(r, CallTexts, CallVoices, CallSpeeds, CallGpus)
         \/ generate_speech(r)

SpecConcurrent == Init /\ [][NextConcurrent]_vars

\* The service next to its endpoints (main.py): the worker thread runs beside
\* the calls of get_status (lines 111-124) and of generate_speech (lines
\* 79-109) that the endpoints make.
NextStatus ==
    \/ init_worker(1)
    \/ get_status
    \/ GenerateSpeech_Call(1, CallTexts, CallVoices, CallSpeeds, CallGpus)
    \/ generate_speech(1)

SpecStatus == Init /\ [][NextStatus]_vars

\* The same, with the worker thread scheduled: a started thread keeps running,
\* and each of its steps returns or raises.
SpecStatusFair == SpecStatus /\ WF_vars(init_worker(1))

\* The worker threads alone, with _start_background_init invoked again on the
\* constructed service (main.py line 54 asks the service to initialize once
\* more at startup).
NextRestart ==
    \/ \E w \in Workers : init_worker(w)
    \/ \E w \in Workers \ {1} : StartBackgroundInit(w)

SpecRestart == Init /\ [][NextRestart]_vars

\* ----------------------------------------------------------------- claims

Done(r) == req[r].pc = "done"

\* A result is marked as fallback by its trace ("Mock audio for: ...",
\* "Generation failed: ...", "No audio generated for: ...") and carries the
\* path _generate_mock_audio returned.
IsFallback(rec) ==
    /\ rec.result.trace \in {"Mock audio for", "Generation failed",
                             "No audio generated for"}
    /\ rec.result.path \in {"tmp_mock", "dummy"}

NoEngineCall(rec) == rec.loads = <<>> /\ rec.segs = <<>> /\ rec.infers = <<>>

\* C1: whatever raises inside a call (the pipeline lookup, load_voice, the
\* segmentation, the model, sf.write of the real waveform), in whatever state
\* the worker is, no exception leaves generate_speech, and the call that had
\* a failure, or found the service not ready, returns a (path, trace) pair
\* marked as fallback.
C1_NeverRaises ==
    \A r \in Callers :
      /\ req[r].pc # "raised"
      /\ Done(r) =>
           /\ req[r].result.path # "none"
           /\ req[r].result.trace # "none"
           /\ (req[r].raised # "none" => IsFallback(req[r]))
           /\ (req[r].result.trace # "Generated" => IsFallback(req[r]))

\* C1's case: the write of the real waveform raised and the call returned
\* the "Generation failed" fallback.
C1_Witness ==
    \E r \in Callers :
      /\ Done(r)
      /\ req[r].raised = "sf.write"
      /\ req[r].result.trace = "Generation failed"
      /\ IsFallback(req[r])

\* C2: a call that reads self.initialized as false at line 163, after its
\* wait, returns at once the mock fallback ("Mock audio for" and the path of
\* _generate_mock_audio), and has called neither load_voice nor the
\* segmentation nor a model.
C2_NotReadyFallback ==
    [][ \A r \in Callers :
          (req[r].pc = "L163" /\ ~initialized /\ req'[r] # req[r]) =>
            /\ req'[r].pc = "done"
            /\ req'[r].result.trace = "Mock audio for"
            /\ IsFallback(req'[r])
            /\ Len(req'[r].mocks) = 1
            /\ NoEngineCall(req'[r]) ]_vars

\* C2's case: the worker has ended in failure for good and a call returned
\* the mock fallback.
C2_Witness ==
    \E r \in Callers :
      /\ Done(r)
      /\ wpc[1] = "done" /\ ~initialized /\ initialization_error # "None"
      /\ req[r].result.trace = "Mock audio for"
      /\ NoEngineCall(req[r])

\* C3: the wait makes at most ReadinessPolls (10) polls: the counter never
\* exceeds the budget, a call that has used the budget is no longer in the
\* loop, and a call that returns after the full budget with the service
\* still initializing returns the mock fallback.
C3_BoundedWait ==
    \A r \in Callers :
      /\ req[r].polls <= ReadinessPolls
      /\ (req[r].pc = "L159" => req[r].polls < ReadinessPolls)
      /\ (Done(r) /\ req[r].polls = ReadinessPolls) =>
           /\ req[r].result.trace = "Mock audio for"
           /\ IsFallback(req[r])

\* C3's case: ten polls made, the worker still in progress, the fallback
\* returned.
C3_Witness ==
    \E r \in Callers :
      /\ Done(r)
      /\ req[r].polls = ReadinessPolls
      /\ initialization_in_progress /\ ~initialized
      /\ req[r].result.trace = "Mock audio for"

\* What raises in a load, segmentation, inference or write step: load_voice,
\* the pipeline generator, the model, sf.write.
StepFailures == {"load_voice", "pipeline", "model", "sf.write"}

\* C4 as stated: self.initialized, once true, stays true, and a call made
\* when it is true, for a catalog voice, never enters the not-ready branch
\* and returns a fallback only when a load, segmentation, inference or write
\* step raised.
C4_Original ==
    \A r \in Callers :
      (req[r].ready_at_call /\ req[r].arg.voice \in CHOICES) =>
        /\ initialized
        /\ req[r].pc \notin {"L155", "L159", "L163"}
        /\ req[r].result.trace # "Mock audio for"
        /\ (Done(r) /\ req[r].result.trace # "Generated") =>
             req[r].raised \in StepFailures

\* C4, amended: self.initialized, once true, stays true, and a call made
\* when it is true, for a catalog voice, never enters the not-ready branch
\* (lines 155-165); it returns a fallback only when a load, segmentation,
\* inference or write step raised or when the segmentation yielded no chunk
\* (line 213).
C4_ReadyAbsorbing ==
    /\ [][initialized => initialized']_vars
    /\ [](\A r \in Callers :
            (req[r].ready_at_call /\ req[r].arg.voice \in CHOICES) =>
              /\ initialized
              /\ req[r].pc \notin {"L155", "L159", "L163"}
              /\ req[r].result.trace # "Mock audio for"
              /\ (Done(r) /\ req[r].result.trace # "Generated") =>
                   \/ req[r].raised \in StepFailures
                   \/ /\ req[r].raised = "none"
                      /\ req[r].result.trace = "No audio generated for"
                      /\ Len(req[r].segs) = 1 /\ req[r].infers = <<>>)

\* C4's case: a call made after line 97, for a catalog voice, returned real
\* audio.
C4_Witness ==
    \E r \in Callers :
      /\ Done(r)
      /\ req[r].ready_at_call
      /\ req[r].arg.voice \in CHOICES
      /\ req[r].result.trace = "Generated"
      /\ req[r].result.path = "tmp_real"

RECURSIVE LoadCalls(_, _)
\* The calls of pipeline.load_voice(v) made by the calls of the callers in S.
LoadCalls(S, v) ==
    IF S = {} THEN 0
    ELSE LET r == CHOOSE x \in S : TRUE
         IN  Len(SelectSeq(req[r].loads, LAMBDA w : w = v)) + LoadCalls(S \ {r}, v)

\* C5: when every caller has made a call for the same voice v on a ready
\* service, each while v was not yet in voices_loaded, and all have returned
\* real audio, then pipeline.load_voice(v) was called exactly once over all
\* of them.
C5_LoadOnce ==
    \A v \in CHOICES :
      (\A r \in Callers :
         /\ Done(r)
         /\ req[r].ready_at_call
         /\ ~req[r].loaded_at_call
         /\ req[r].voice = v
         /\ req[r].result.trace = "Generated")
      => LoadCalls(Callers, v) = 1

\* The voice a call must use: the requested id if it is a value of CHOICES,
\* af_heart otherwise.
ResolvedVoice(rec) ==
    IF rec.arg.voice \in CHOICES THEN rec.arg.voice ELSE <<"a","f","heart">>

\* The lines after the validation of the voice.
AfterValidation == {"L182", "L185", "L187", "L188", "L190", "L192", "L196", "L204"}

\* C6: in a call that got past the readiness check, the pipeline is the one
\* of the resolved voice's first character, every load_voice and every
\* segmentation call is made with the resolved voice (af_heart for an id
\* outside the catalog, the requested id otherwise), and the pipeline lookup
\* does not fail.
C6_VoiceResolved ==
    \A r \in Callers :
      (req[r].pc \in AfterValidation \/
       (Done(r) /\ req[r].result.trace # "Mock audio for")) =>
        /\ req[r].voice = ResolvedVoice(req[r])
        /\ req[r].pipeline \in {"none", ResolvedVoice(req[r])[1]}
        /\ (req[r].pc # "L182" => req[r].pipeline = ResolvedVoice(req[r])[1])
        /\ \A i \in 1..Len(req[r].loads) : req[r].loads[i] = ResolvedVoice(req[r])
        /\ \A i \in 1..Len(req[r].segs) : req[r].segs[i].voice = ResolvedVoice(req[r])
        /\ req[r].raised # "pipelines[voice[0]]"

\* C6's case: a call for an id outside the catalog and outside every bucket
\* returned real audio in the default voice.
C6_Witness ==
    \E r \in Callers :
      /\ Done(r)
      /\ req[r].arg.voice = <<"z","z","top">>
      /\ req[r].result.trace = "Generated"
      /\ req[r].pipeline = "a"
      /\ req[r].loads = << <<"a","f","heart">>, <<"a","f","heart">> >>
      /\ Len(req[r].segs) = 1 /\ req[r].segs[1].voice = <<"a","f","heart">>

\* The texts a call hands on: to the segmentation and to the mock generator.
TextsUsed(rec) ==
    { rec.segs[i].text : i \in 1..Len(rec.segs) } \cup
    { rec.mocks[i].text : i \in 1..Len(rec.mocks) }

\* C7 as stated: on every path, the not-ready one included, every text the
\* call hands on has at most MaxTextLen (5000) characters, and for an input
\* longer than that it is exactly the input's prefix of that length.
C7_Original ==
    \A r \in Callers : \A t \in TextsUsed(req[r]) :
      /\ TextLen(t) <= MaxTextLen
      /\ (TextLen(req[r].arg.text) > MaxTextLen =>
            t = Prefix(req[r].arg.text, MaxTextLen))

\* C7, amended: past the readiness check the text handed to the
\* segmentation, to the mock generator and into the trace is the input
\* stripped of surrounding whitespace and then cut to its first 5000
\* characters, so it has at most 5000 characters, and for an input longer
\* than 5000 that has no surrounding whitespace it is exactly the input's
\* 5000-character prefix; on the not-ready path (line 165) the mock
\* generator and the trace get the input as passed in, uncut.
C7_TextLimited ==
    \A r \in Callers :
      LET arg == req[r].arg.text
          lim == Prefix(Text(0, arg.core, 0), MaxTextLen)
      IN  /\ TextLen(lim) <= MaxTextLen
          /\ (TextLen(arg) > MaxTextLen /\ arg.lead = 0 /\ arg.trail = 0) =>
               lim = Prefix(arg, MaxTextLen)
          /\ \A i \in 1..Len(req[r].segs) : req[r].segs[i].text = lim
          /\ Done(r) =>
               CASE req[r].result.trace = "Mock audio for" ->
                      /\ \A i \in 1..Len(req[r].mocks) : req[r].mocks[i].text = arg
                      /\ req[r].result.preview = Prefix(arg, MockPreviewLen)
                 [] req[r].result.trace = "No audio generated for" ->
                      /\ \A i \in 1..Len(req[r].mocks) : req[r].mocks[i].text = lim
                      /\ req[r].result.preview = Prefix(lim, MockPreviewLen)
                 [] req[r].result.trace = "Generation failed" ->
                      \A i \in 1..Len(req[r].mocks) : req[r].mocks[i].text = lim
                 [] OTHER ->
                      /\ req[r].mocks = <<>>
                      /\ req[r].result.preview = Prefix(lim, TracePreviewLen)

\* C7's case: an input of 5001 characters, one of them a leading space, was
\* segmented as its 5000 stripped characters, which are not its prefix.
C7_Witness ==
    \E r \in Callers :
      /\ Done(r)
      /\ req[r].arg.text = Text(1, 5000, 0)
      /\ req[r].result.trace = "Generated"
      /\ req[r].segs[1].text = Text(0, 5000, 0)
      /\ req[r].segs[1].text # Prefix(req[r].arg.text, MaxTextLen)

\* C8: a call with use_gpu = TRUE never ends in a fallback, nor in an
\* exception, because of the GPU: "Generation failed" is returned only when
\* load_voice, the segmentation, the CPU model or sf.write raised (never for
\* a GPU model that is missing or raises), and a call in which none of them
\* raised and a chunk was yielded returns the real waveform, not a fallback.
C8_GpuFailureNoFallback ==
    \A r \in Callers :
      req[r].arg.use_gpu =>
        /\ req[r].pc # "raised"
        /\ (Done(r) /\ req[r].result.trace = "Generation failed") =>
             /\ req[r].raised \in StepFailures
             /\ req[r].raised = "model" =>
                  req[r].infers[Len(req[r].infers)].device = FALSE
        /\ (Done(r) /\ req[r].raised = "none" /\ req[r].chunks >= 1) =>
             /\ req[r].result.trace = "Generated"
             /\ req[r].result.path = "tmp_real"
             /\ req[r].mocks = <<>>

\* C8's case: a GPU is there (cuda), the call asked for it, and the result
\* is the real waveform made by the CPU model.
C8_Witness ==
    \E r \in Callers :
      /\ Done(r)
      /\ req[r].arg.use_gpu
      /\ cuda_available = "True"
      /\ Len(req[r].infers) = 1
      /\ req[r].infers[1].device = FALSE
      /\ req[r].infers[1].speed = req[r].arg.speed
      /\ req[r].result.trace = "Generated"
      /\ req[r].result.path = "tmp_real"

C10_Original ==
    \A r \in Callers :
      /\ Done(r) => req[r].result.path \in {"tmp_real", "tmp_mock"}
      /\ \A i \in 1..Len(req[r].mocks) :
           ~req[r].mocks[i].written => req[r].pc = "raised"

\* C10, amended: every returned path names a file written during the call
\* or, exactly when the mock generator's write failed, the fixed path
\* "/tmp/mock_audio.wav", which the call did not write; the mock generator's
\* write failure does not leave generate_speech, and no other failure does.
C10_ArtifactOrDummy ==
    \A r \in Callers :
      /\ req[r].pc # "raised"
      /\ Done(r) =>
           IF req[r].mocks = <<>>
             THEN req[r].result.path = "tmp_real"
             ELSE LET m == req[r].mocks[Len(req[r].mocks)]
                  IN  /\ Len(req[r].mocks) = 1
                      /\ m.written => req[r].result.path = "tmp_mock"
                      /\ ~m.written => req[r].result.path = "dummy"

\* C10's case: the mock generator's write failed and the call returned the
\* fixed path.
C10_Witness ==
    \E r \in Callers :
      /\ Done(r)
      /\ Len(req[r].mocks) = 1
      /\ ~req[r].mocks[1].written
      /\ req[r].result.path = "dummy"


\* C11 as stated: load_voice is invoked at most once per voice id, and a call
\* whose voice is already recorded in voices_loaded gets its pack without
\* calling load_voice again.  Every load of a call is of its resolved voice
\* (C6), so one call alone may load at most once.
C11_LoadMemoized ==
    \A r \in Callers :
      /\ Len(req[r].loads) <= 1
      /\ req[r].loaded_at_call => req[r].loads = <<>>


\* C12 as stated: with use_gpu set and CUDA available the first inference
\* call of a request is on the GPU and a CPU call is made only after a GPU
\* call; otherwise only the CPU is called; no GPU call follows a CPU call.
C12_Original ==
    \A r \in Callers :
      LET gpu == req[r].arg.use_gpu /\ cuda_available = "True"
          inf == req[r].infers
      IN  /\ (gpu /\ inf # <<>>) => inf[1].device = TRUE
          /\ gpu => \A i \in 1..Len(inf) :
                      inf[i].device = FALSE => (i > 1 /\ inf[i-1].device = TRUE)
          /\ ~gpu => \A i \in 1..Len(inf) : inf[i].device = FALSE
          /\ \A i, j \in 1..Len(inf) :
               (i < j /\ inf[i].device = FALSE) => inf[j].device = FALSE

\* C12, amended: whatever use_gpu and the CUDA capability are, a request
\* makes at most one inference call and that call is on the CPU model
\* (models[False], line 196); no GPU call is ever made, so no GPU call
\* follows a CPU call, and a request that returned real audio made exactly
\* one CPU call.
C12_CpuOnly ==
    \A r \in Callers :
      /\ Len(req[r].infers) <= 1
      /\ \A i \in 1..Len(req[r].infers) : req[r].infers[i].device = FALSE
      /\ (Done(r) /\ req[r].result.trace = "Generated") => Len(req[r].infers) = 1

\* C12's case: CUDA is available, the call asked for the GPU and returned
\* real audio from its one inference call, made on the CPU.
C12_Witness ==
    \E r \in Callers :
      /\ Done(r)
      /\ cuda_available = "True"
      /\ req[r].arg.use_gpu
      /\ req[r].result.trace = "Generated"
      /\ Len(req[r].infers) = 1
      /\ req[r].infers[1].device = FALSE


\* A step that starts no worker thread.
NoFurtherWorker == \A w \in Workers : wpc[w] = "none" => wpc'[w] = "none"

\* C13 as stated: _start_background_init is idempotent: no step taken while
\* the service is Initializing or Ready starts a further worker thread.
C13_Idempotent ==
    [][(EngineState \in {"Initializing", "Ready"}) => NoFurtherWorker]_vars


\* C14 as stated: once the constructor has returned the service is never
\* seen as Uninitialized.  No get_status call returns "waiting", and a
\* generate_speech call takes the fallback without having polled only when
\* the initialization has failed.
C14_NeverUninitialized ==
    /\ st.pc = "done" => st.result # "waiting"
    /\ \A r \in Callers :
         ( /\ Done(r)
           /\ req[r].result.trace = "Mock audio for"
           /\ req[r].polls = 0 ) => initialization_error # "None"


\* C15 as stated: whenever the service is Failed a reason is recorded and
\* both self.models and self.pipelines are empty.
C15_Original ==
    EngineState = "Failed" =>
      /\ initialization_error # "None"
      /\ models = EmptyDict
      /\ pipelines = EmptyDict

\* C15, amended: a worker that ended without setting the ready flag leaves
\* the service Failed with the reason recorded, and the two dicts hold what
\* the steps before the failing one installed: both are empty when the
\* import or the model construction raised, models holds the CPU model and
\* pipelines is empty when a pipeline construction raised, and models holds
\* the CPU model and pipelines both pipelines when the lexicon step raised.
C15_FailedKeepsInstalled ==
    /\ (wpc[1] = "done" /\ ~initialized) => EngineState = "Failed"
    /\ EngineState = "Failed" =>
         /\ ~initialized
         /\ initialization_error \in {"import kokoro", "KModel", "KPipeline", "lexicon"}
         /\ DOMAIN models =
              IF initialization_error \in {"import kokoro", "KModel"} THEN {} ELSE {FALSE}
         /\ DOMAIN pipelines =
              IF initialization_error = "lexicon" THEN {"a", "b"} ELSE {}

\* C15's case: the lexicon step raised; the service is Failed with the CPU
\* model and both pipelines installed.
C15_Witness ==
    /\ EngineState = "Failed"
    /\ wpc[1] = "done"
    /\ initialization_error = "lexicon"
    /\ DOMAIN models = {FALSE}
    /\ DOMAIN pipelines = {"a", "b"}


\* A step in which no call polls on after the initialization has failed, no
\* call enters the wait loop when the service is already Failed, and no call
\* made on a Ready service has polled.
StopsWaitingStep ==
    \A r \in Callers :
      /\ (req[r].pc = "L159" /\ EngineState = "Failed") =>
           req'[r].polls = req[r].polls
      /\ (req[r].pc = "L155" /\ EngineState = "Failed") => req'[r].pc # "L159"
      /\ req'[r].ready_at_call => req'[r].polls = 0

\* C16 as stated: a waiting generate_speech call stops waiting as soon as the
\* service leaves Initializing, for Failed as for Ready: after a failed
\* initialization no waiting call sleeps again, and a call made when the
\* service is already Ready or Failed does not wait at all.
C16_StopsWaiting == [][StopsWaitingStep]_vars


\* C17 as stated: a get_status call returns a state the service held at some
\* moment during the call, and the states returned never go back.  The
\* service is Uninitialized only until line 62 has run, so a call may
\* return "waiting" only if the service was Uninitialized when the call was
\* made, and what a call that returned "ready" saw still holds.
C17_StatusLinearizable ==
    st.pc = "done" =>
      /\ st.result = "waiting" => st.state_at_call = "Uninitialized"
      /\ st.result = "ready" => EngineState = "Ready"


SpeedsUsed(rec) ==
    { rec.segs[i].speed : i \in 1..Len(rec.segs) } \cup
    { rec.infers[i].speed : i \in 1..Len(rec.infers) }

\* C19 as stated: whatever speed generate_speech is given, every speed handed
\* to the segmentation and to the model lies in [0.5, 2.0], and a speed that
\* is in that range is handed on unchanged.
C19_Original ==
    \A r \in Callers : \A s \in SpeedsUsed(req[r]) :
      /\ MinSpeed <= s /\ s <= MaxSpeed
      /\ (MinSpeed <= req[r].arg.speed /\ req[r].arg.speed <= MaxSpeed) =>
           s = req[r].arg.speed

\* C19, amended: generate_speech hands the speed it is given to the
\* segmentation and to the model unchanged, a speed below 0.5 or above 2.0
\* included; the speed handed on lies in [0.5, 2.0] exactly when the speed
\* passed in does, as the request schema makes it for calls through the
\* endpoint.
C19_SpeedUnchanged ==
    \A r \in Callers : \A s \in SpeedsUsed(req[r]) :
      /\ s = req[r].arg.speed
      /\ (MinSpeed <= s /\ s <= MaxSpeed) <=>
           (MinSpeed <= req[r].arg.speed /\ req[r].arg.speed <= MaxSpeed)

\* C19's case: a call with speed 3.0 returned real audio, and the
\* segmentation and the model were both given 3.0.
C19_Witness ==
    \E r \in Callers :
      /\ Done(r)
      /\ req[r].result.trace = "Generated"
      /\ req[r].arg.speed = 300
      /\ Len(req[r].segs) = 1 /\ req[r].segs[1].speed = 300
      /\ Len(req[r].infers) = 1 /\ req[r].infers[1].speed = 300


\* C20: on a Ready service a call runs the segmentation once and takes only
\* its first chunk: the model is called at most once, on the first chunk's
\* tokens with the reference slice pack[len(ps)-1] picked by that chunk's
\* token count, however many chunks there are; a call that returned real
\* audio made exactly that one model call; and when the segmentation yields
\* no chunk the call returns the mock audio without a model call.
C20_FirstChunkOnly ==
    \A r \in Callers :
      /\ Len(req[r].segs) <= 1
      /\ Len(req[r].infers) <= 1
      /\ \A i \in 1..Len(req[r].infers) :
           /\ Len(req[r].segs) = 1
           /\ req[r].chunks >= 1
           /\ req[r].infers[i].chunk = 1
           /\ req[r].infers[i].tokens = req[r].tokens
           /\ req[r].infers[i].ref = req[r].tokens - 1
      /\ (Done(r) /\ req[r].result.trace = "Generated") => Len(req[r].infers) = 1
      /\ (Done(r) /\ req[r].segs # <<>> /\ req[r].raised = "none" /\ req[r].chunks = 0) =>
           /\ req[r].infers = <<>>
           /\ req[r].result.trace = "No audio generated for"
           /\ IsFallback(req[r])

\* C20's case: the segmentation had two chunks, the first of two tokens; the
\* call returned real audio from one model call, on that chunk with pack[1].
C20_Witness ==
    \E r \in Callers :
      /\ Done(r)
      /\ req[r].result.trace = "Generated"
      /\ req[r].chunks = 2
      /\ req[r].tokens = 2
      /\ Len(req[r].infers) = 1
      /\ req[r].infers[1].chunk = 1
      /\ req[r].infers[1].ref = 1


\* C21 as stated: a load_voice failure for a voice touches only the call in
\* which it happens.  The call returns the mock audio, the voice is not in
\* voices_loaded (here: for a call that did not find it there), and the
\* service is still Ready.
C21_LoadFailureFramed ==
    \A r \in Callers :
      (Done(r) /\ req[r].raised = "load_voice" /\ ~req[r].loaded_at_call) =>
        /\ IsFallback(req[r])
        /\ req[r].voice \notin voices_loaded
        /\ EngineState = "Ready"


\* C22: whenever the ready flag is set, models holds the CPU model and
\* pipelines holds both buckets "a" and "b"; every catalog voice, and so
\* every voice left by the validation of lines 168-169, begins with one of
\* these buckets; hence no call fails on a missing model or pipeline,
\* however its steps interleave with those of init_worker.
C22_PublishedAfterInstalled ==
    /\ initialized => (FALSE \in DOMAIN models /\ DOMAIN pipelines = {"a", "b"})
    /\ \A v \in CHOICES : Bucket(v) \in {"a", "b"}
    /\ \A v \in AllVoices : Bucket(ValidateVoice(v)) \in {"a", "b"}
    /\ \A r \in Callers :
         /\ req[r].raised \notin {"pipelines[voice[0]]", "models[device]"}
         /\ req[r].pc \in AfterValidation => initialized
         /\ req[r].pipeline # "none" => req[r].pipeline \in DOMAIN pipelines

\* C22's case: a call saw the ready flag and got its pipeline and the model's
\* answer while init_worker had not yet run its finally clause.
C22_Witness ==
    \E r \in Callers :
      /\ req[r].pc = "L204"
      /\ ~req[r].ready_at_call
      /\ req[r].pipeline = "b"
      /\ wpc[1] = "L108"
      /\ initialized /\ initialization_in_progress

====
